---- MODULE Spec2Model ----
(***************************************************************************)
(* Model of the LA county crime map dashboards crime_map_app.py (one year, *)
(* 2023) and crime_map_appV2.py (year dropdown).                           *)
(*                                                                         *)
(* Four specifications share the variables below:                         *)
(*   SpecCls   the category pipeline of one CSV field:                     *)
(*             read_csv -> .str.strip() -> assign_aggregated_category      *)
(*   SpecJoin  the attribution of incidents to regions:                    *)
(*             to_crs -> sjoin(how='inner', predicate='within')            *)
(*   Spec      the two dashboards: module start-up and the callbacks       *)
(*   SpecThreads  crime_map_app.py serving requests at the same time, one   *)
(*             statement of a callback at a time                           *)
(*                                                                         *)
(* Strings are TLA+ strings.  A DataFrame is the sequence of its rows, a    *)
(* row being the record of its cells; a GeoDataFrame adds the reference    *)
(* frame.  A cell of the category column is a tagged value, a str or the   *)
(* float NaN that pandas uses for a missing field.  Rendering (plotly) is  *)
(* kept as the data a figure is built from.                                *)
(***************************************************************************)
EXTENDS FiniteSets, Integers, Sequences, TLC

VARIABLES
    (* SpecCls *)
    cls,        \* the category pipeline: path, pc, text, cell, label, relabel
    (* SpecJoin *)
    att,        \* the attribution pipeline: pc, crime_data, cities, joined_data
    (* Spec: the dashboards *)
    app,        \* the program that runs, "app" (crime_map_app.py) or "appV2", and whether
                \* GeoDataFrame(crime_df) shares its data with crime_df there
    fs,         \* the data directory: year -> rows of <year>crimedata.csv or NoFile
    glob,       \* the module-level names: crime_df, crime_data, cities, joined_data, mean_centroid
    last,       \* the last callback invocation: its request and its outcome
    repeated,   \* the last request is the same as the one before it
    (* SpecThreads *)
    thr         \* the requests that crime_map_app.py is serving: thread -> pc, request, locals

vars == <<cls, att, app, fs, glob, last, repeated, thr>>

(***************************************************************************)
(* Bounds                                                                  *)
(***************************************************************************)
MaxPad == 1         \* whitespace characters on each side of a category text
MaxRows == 2        \* rows of a crime data file
MaxPts == 2         \* incidents of an attribution run
MaxOtherRows == 1   \* rows of the data file of a year other than the start-up year
MaxThreads == 2     \* requests that are served at the same time

(***************************************************************************)
(* Strings and cells                                                       *)
(***************************************************************************)
\* str.strip() with no argument removes these from both ends
WhitespaceChars == {" ", "\t"}

RECURSIVE WhitespaceStrings(_)
WhitespaceStrings(n) ==
    IF n = 0 THEN {""}
    ELSE LET shorter == WhitespaceStrings(n - 1)
         IN  shorter \cup {w \o c : w \in shorter, c \in WhitespaceChars}

Pads == WhitespaceStrings(MaxPad)

\* the table with ARSON a member of Property Crimes and of Miscellaneous Crimes
bins_duplicated == <<
    <<"NON-AGGRAVATED ASSAULTS", "AGGRAVATED ASSAULT", "FORCIBLE RAPE", "ROBBERY", "CRIMINAL HOMICIDE",
      "SEX OFFENSES MISDEMEANORS", "SEX OFFENSES FELONIES", "OFFENSES AGAINST FAMILY", "WEAPON LAWS",
      "DISORDERLY CONDUCT">>,
    <<"GRAND THEFT AUTO", "LARCENY THEFT", "BURGLARY", "ARSON", "VANDALISM", "RECEIVING STOLEN PROPERTY",
      "FORGERY", "FRAUD AND NSF CHECKS">>,
    <<"NARCOTICS", "DRUNK / ALCOHOL / DRUGS", "LIQUOR LAWS", "DRUNK DRIVING VEHICLE / BOAT">>,
    <<"VEHICLE / BOATING LAWS", "MISDEMEANORS MISCELLANEOUS", "FELONIES MISCELLANEOUS", "WARRANTS",
      "VAGRANCY", "GAMBLING", "FEDERAL OFFENSES WITH MONEY", "FEDERAL OFFENSES W/O MONEY", "ARSON">>
>>

\* the classification table, as written in both programs
bins == <<
    <<"NON-AGGRAVATED ASSAULTS", "AGGRAVATED ASSAULT", "FORCIBLE RAPE", "ROBBERY", "CRIMINAL HOMICIDE",
      "SEX OFFENSES MISDEMEANORS", "SEX OFFENSES FELONIES", "OFFENSES AGAINST FAMILY", "WEAPON LAWS",
      "DISORDERLY CONDUCT">>,
    <<"GRAND THEFT AUTO", "LARCENY THEFT", "BURGLARY", "ARSON", "VANDALISM", "RECEIVING STOLEN PROPERTY",
      "FORGERY", "FRAUD AND NSF CHECKS">>,
    <<"NARCOTICS", "DRUNK / ALCOHOL / DRUGS", "LIQUOR LAWS", "DRUNK DRIVING VEHICLE / BOAT">>,
    <<"VEHICLE / BOATING LAWS", "MISDEMEANORS MISCELLANEOUS", "FELONIES MISCELLANEOUS", "WARRANTS",
      "VAGRANCY", "GAMBLING", "FEDERAL OFFENSES WITH MONEY", "FEDERAL OFFENSES W/O MONEY">>
>>

labels == <<"Person-Related Crimes", "Property Crimes", "Drug and Alcohol-Related Crimes",
            "Miscellaneous Crimes">>

TableEntries == UNION {{bins[i][j] : j \in 1..Len(bins[i])} : i \in 1..Len(bins)}

\* texts that are no table entry: other letter case, an unknown category, nothing
OtherCores == {"Robbery", "robbery", "Arson", "Jaywalking", ""}

\* the category texts without surrounding whitespace that the model draws from
Cores == TableEntries \cup OtherCores

\* the text of a category field as it stands in a CSV file
CategoryTexts == {a \o c \o b : a \in Pads, c \in Cores, b \in Pads}

Str(s) == [t |-> "str", v |-> s]
NaN == [t |-> "nan", v |-> ""]

\* pandas.read_csv: a field whose text is one of the default NA markers is read as NaN,
\* any other text is kept as it is (surrounding whitespace included)
NaTexts == {"", "NaN", "nan", "NA", "N/A", "NULL", "null", "None"}

read_csv_field(text) == IF text \in NaTexts THEN NaN ELSE Str(text)

\* str.strip(): the text between the leading and the trailing whitespace,
\* tabulated over the category texts of the model
StripTable ==
    [s \in CategoryTexts |->
        CHOOSE c \in Cores :
            \E a \in Pads, b \in Pads : Len(a) + Len(c) + Len(b) = Len(s) /\ s = a \o c \o b]

strip(s) == StripTable[s]

\* the column is left as read_csv returned it
str_strip_noop(cell) == cell

\* Series.str.strip() on one cell: NaN stays NaN
str_strip(cell) == IF cell.t = "str" THEN Str(strip(cell.v)) ELSE NaN

\* Python: value in list, by == ; NaN equals no str
InList(cell, list) == cell.t = "str" /\ \E j \in 1..Len(list) : list[j] = cell.v

Min(a, b) == IF a < b THEN a ELSE b

\* a loop that falls off the end of the function returns None
RECURSIVE scan_no_default(_, _)
scan_no_default(cell, i) ==
    IF i > Min(Len(bins), Len(labels)) THEN "None"
    ELSE IF InList(cell, bins[i]) THEN labels[i]
    ELSE scan_no_default(cell, i + 1)

\* the label is taken one position too far
RECURSIVE scan_shifted(_, _)
scan_shifted(cell, i) ==
    IF i > Min(Len(bins), Len(labels)) THEN "Other"
    ELSE IF InList(cell, bins[i]) THEN labels[(i % Len(labels)) + 1]
    ELSE scan_shifted(cell, i + 1)

\* for bin_list, label in zip(bins, labels): if row['category'] in bin_list: return label
RECURSIVE scan(_, _)
scan(cell, i) ==
    IF i > Min(Len(bins), Len(labels)) THEN "Other"
    ELSE IF InList(cell, bins[i]) THEN labels[i]
    ELSE scan(cell, i + 1)

assign_no_default(cell) == scan_no_default(cell, 1)
assign_shifted(cell) == scan_shifted(cell, 1)

\* assign_aggregated_category(row), applied to row['category']
assign_aggregated_category(cell) == scan(cell, 1)

(***************************************************************************)
(* SpecCls: one category field through the pipeline of either program      *)
(*   "app"    start-up strips the column, the callback classifies          *)
(*   "appV2"  the callback reads the file again and classifies             *)
(***************************************************************************)
ClsIdle == [path |-> "none", pc |-> "idle", text |-> "", cell |-> NaN,
            label |-> "", relabel |-> ""]

\* the callback of crime_map_app.py classifies the column that start-up stripped; the
\* callback of crime_map_appV2.py classifies the column of the file it has just read
strip_applies(path) == path = "app"

AttIdle == [pc |-> "idle"]

InitCls ==
    /\ cls \in {[path |-> p, pc |-> "file", text |-> t, cell |-> NaN, label |-> "", relabel |-> ""] :
                  p \in {"app", "appV2"}, t \in CategoryTexts}
    /\ att = AttIdle
    /\ app = [program |-> "none", shares |-> FALSE]
    /\ fs = <<>>
    /\ glob = <<>>
    /\ last = <<>>
    /\ repeated = FALSE
    /\ thr = <<>>

ClsRead ==
    /\ cls.pc = "file"
    /\ cls' = [cls EXCEPT !.pc = "read", !.cell = read_csv_field(cls.text)]
    /\ UNCHANGED <<att, app, fs, glob, last, repeated, thr>>

ClsStrip ==
    /\ cls.pc = "read"
    /\ strip_applies(cls.path)
    /\ cls' = [cls EXCEPT !.pc = "stripped", !.cell = str_strip(cls.cell)]
    /\ UNCHANGED <<att, app, fs, glob, last, repeated, thr>>

ClsClassify ==
    /\ \/ cls.pc = "stripped"
       \/ cls.pc = "read" /\ ~strip_applies(cls.path)
    /\ cls' = [cls EXCEPT !.pc = "classified", !.label = assign_aggregated_category(cls.cell)]
    /\ UNCHANGED <<att, app, fs, glob, last, repeated, thr>>

\* the callback runs again on the same data
ClsClassifyAgain ==
    /\ cls.pc = "classified"
    /\ cls' = [cls EXCEPT !.pc = "reclassified", !.relabel = assign_aggregated_category(cls.cell)]
    /\ UNCHANGED <<att, app, fs, glob, last, repeated, thr>>

NextCls == ClsRead \/ ClsStrip \/ ClsClassify \/ ClsClassifyAgain

SpecCls == InitCls /\ [][NextCls]_vars

(***************************************************************************)
(* Data files and frames                                                   *)
(*                                                                         *)
(* A line of <year>crimedata.csv is [latitude, longitude, category], the   *)
(* category being the text of the field.  A row of a DataFrame is a record *)
(* of its cells plus "index", its label in the frame's RangeIndex.         *)
(* Coordinates are integers, and the float nan of a blank coordinate field *)
(* is coded as an integer that no coordinate takes.  Files hold at least    *)
(* one line.                                                               *)
(***************************************************************************)
\* float('nan'): what read_csv gives for a blank field of a numeric column
nan == -1000

isnan(c) == c = nan

\* a < b for floats: false when either side is nan
lt(a, b) == ~isnan(a) /\ ~isnan(b) /\ a < b

\* a <= b for floats: false when either side is nan
le(a, b) == ~isnan(a) /\ ~isnan(b) /\ a <= b

RECURSIVE SeqsUpTo(_, _)
\* the sequences over S of length 1..n
SeqsUpTo(S, n) ==
    IF n = 0 THEN {}
    ELSE SeqsUpTo(S, n - 1) \cup [1..n -> S]

\* (longitude, latitude) of the incidents the model draws from; (0, 0) is outside every
\* region, (nan, 2) has no longitude and (2, 200) has a latitude beyond 90
Places == {<<0, 0>>, <<2, 2>>, <<4, 2>>, <<5, 2>>, <<6, 2>>, <<8, 2>>, <<nan, 2>>, <<2, 200>>}

Line(place, text) == [longitude |-> place[1], latitude |-> place[2], category |-> text]

\* pd.read_csv(path); columns lower-cased: row k of the file gets index k - 1
read_csv(lines) ==
    [k \in 1..Len(lines) |->
        [index |-> k - 1, latitude |-> lines[k].latitude, longitude |-> lines[k].longitude,
         category |-> read_csv_field(lines[k].category)]]

\* a row with one more column (or one column overwritten)
WithColumn(row, col, value) ==
    [f \in DOMAIN row \cup {col} |-> IF f = col THEN value ELSE row[f]]

\* df[col] = values, row by row
SetColumn(rows, col, values) ==
    [k \in 1..Len(rows) |-> WithColumn(rows[k], col, values[k])]

\* shapely Point(x, y)
Point(x, y) == [x |-> x, y |-> y]

\* the coordinates are passed in the order (latitude, longitude)
geometry_swapped(row) == Point(row.latitude, row.longitude)

\* lambda row: Point(row.longitude, row.latitude)
geometry_of(row) == Point(row.longitude, row.latitude)

\* crime_df['geometry'] = crime_df.apply(..., axis=1)
add_geometry(rows) ==
    SetColumn(rows, "geometry", [k \in 1..Len(rows) |-> geometry_of(rows[k])])

\* gpd.GeoDataFrame(crime_df, geometry='geometry'): points without a reference frame
GeoDataFrame(rows) == [crs |-> "None", rows |-> rows]

(***************************************************************************)
(* Regions.  A region is a named axis-parallel rectangle; the boundary     *)
(* file gives the rectangles in its own reference frame.  Two frames are   *)
(* modelled: "EPSG:4326" (longitude, latitude) and "projected", in which   *)
(* the coordinate c of EPSG:4326 is 2 * c + 10.                            *)
(***************************************************************************)
Box(x1, y1, x2, y2) == [xmin |-> x1, ymin |-> y1, xmax |-> x2, ymax |-> y2]

\* in EPSG:4326: West and East share the border x = 5, Mid overlaps both
RegionUniverse == {
    [CITY_NAME |-> "West", geometry |-> Box(1, 1, 5, 5)],
    [CITY_NAME |-> "East", geometry |-> Box(5, 1, 9, 5)],
    [CITY_NAME |-> "Mid", geometry |-> Box(3, 1, 7, 5)] }

MaxRegions == 2     \* regions of a boundary file

Frames == {"EPSG:4326", "projected"}

transform_coord(c, from, to) ==
    IF from = to THEN c
    ELSE IF to = "projected" THEN 2 * c + 10
    ELSE (c - 10) \div 2

transform(g, from, to) ==
    IF "xmin" \in DOMAIN g
    THEN Box(transform_coord(g.xmin, from, to), transform_coord(g.ymin, from, to),
             transform_coord(g.xmax, from, to), transform_coord(g.ymax, from, to))
    ELSE Point(transform_coord(g.x, from, to), transform_coord(g.y, from, to))

\* the frame is relabelled, the coordinates are left as they are
to_crs_relabel(gdf, crs) == [crs |-> crs, rows |-> gdf.rows]

\* GeoDataFrame.to_crs(crs): every geometry is converted to the frame crs
to_crs(gdf, crs) ==
    [crs |-> crs,
     rows |-> [k \in 1..Len(gdf.rows) |->
                 WithColumn(gdf.rows[k], "geometry", transform(gdf.rows[k].geometry, gdf.crs, crs))]]

\* gpd.read_file(shapefile): the regions of the file, in the file's frame
read_file(shp) ==
    [crs |-> shp.crs,
     rows |-> [k \in 1..Len(shp.regions) |->
                 [index |-> k - 1, CITY_NAME |-> shp.regions[k].CITY_NAME,
                  geometry |-> transform(shp.regions[k].geometry, "EPSG:4326", shp.crs)]]]

\* boundary files: one to MaxRegions different regions, in either frame
ShapeFiles ==
    {[crs |-> c, regions |-> r] :
        c \in Frames,
        r \in {q \in SeqsUpTo(RegionUniverse, MaxRegions) :
                 \A i, j \in 1..Len(q) : i # j => q[i] # q[j]}}

\* the point is not on or beyond any side of the rectangle, each test negated
within_not_outside(pt, box) ==
    /\ ~le(pt.x, box.xmin) /\ ~le(box.xmax, pt.x)
    /\ ~le(pt.y, box.ymin) /\ ~le(box.ymax, pt.y)

\* predicate='within' for a point and a polygon: the point is in the interior
within(pt, box) ==
    /\ lt(box.xmin, pt.x) /\ lt(pt.x, box.xmax)
    /\ lt(box.ymin, pt.y) /\ lt(pt.y, box.ymax)

\* the row of the join for an incident and a region that holds it
JoinRow(l, r) ==
    [f \in DOMAIN l \cup {"index_right", "CITY_NAME"} |->
        IF f = "index_right" THEN r.index
        ELSE IF f = "CITY_NAME" THEN r.CITY_NAME
        ELSE l[f]]

\* the rows of the join for one incident, in the order of the regions
Matches(l, rrows) ==
    LET hit == SelectSeq(rrows, LAMBDA r : within(l.geometry, r.geometry))
    IN  [j \in 1..Len(hit) |-> JoinRow(l, hit[j])]

\* the row of a left join for an incident that no region holds
Unmatched(l) ==
    [f \in DOMAIN l \cup {"index_right", "CITY_NAME"} |->
        IF f \in {"index_right", "CITY_NAME"} THEN NaN ELSE l[f]]

RECURSIVE sjoin_rows(_, _, _)
sjoin_rows(lrows, rrows, k) ==
    IF k > Len(lrows) THEN <<>>
    ELSE Matches(lrows[k], rrows) \o sjoin_rows(lrows, rrows, k + 1)

\* how='left': an incident that no region holds is kept, with a missing region
RECURSIVE sjoin_rows_left(_, _, _)
sjoin_rows_left(lrows, rrows, k) ==
    IF k > Len(lrows) THEN <<>>
    ELSE (IF Matches(lrows[k], rrows) = <<>> THEN <<Unmatched(lrows[k])>>
          ELSE Matches(lrows[k], rrows))
         \o sjoin_rows_left(lrows, rrows, k + 1)

\* the k-th incident is tested against the k-th region only
RECURSIVE sjoin_rows_paired(_, _, _)
sjoin_rows_paired(lrows, rrows, k) ==
    IF k > Len(lrows) THEN <<>>
    ELSE (IF k <= Len(rrows) THEN Matches(lrows[k], <<rrows[k]>>) ELSE <<>>)
         \o sjoin_rows_paired(lrows, rrows, k + 1)

\* an incident is given the first region that holds it, and no other
RECURSIVE sjoin_rows_first(_, _, _)
sjoin_rows_first(lrows, rrows, k) ==
    IF k > Len(lrows) THEN <<>>
    ELSE (IF Matches(lrows[k], rrows) = <<>> THEN <<>> ELSE <<Matches(lrows[k], rrows)[1]>>)
         \o sjoin_rows_first(lrows, rrows, k + 1)

sjoin_left(left, right) == [crs |-> left.crs, rows |-> sjoin_rows_left(left.rows, right.rows, 1)]
sjoin_first(left, right) == [crs |-> left.crs, rows |-> sjoin_rows_first(left.rows, right.rows, 1)]
sjoin_paired(left, right) == [crs |-> left.crs, rows |-> sjoin_rows_paired(left.rows, right.rows, 1)]

\* gpd.sjoin(left, right, how='inner', predicate='within'): one row per incident and region
\* that holds it, ordered by incident, then by region; the coordinates are compared as
\* they are, whatever the frames
sjoin(left, right) == [crs |-> left.crs, rows |-> sjoin_rows(left.rows, right.rows, 1)]

(***************************************************************************)
(* SpecJoin: the attribution steps of module start-up                      *)
(***************************************************************************)
InitJoin ==
    /\ att \in {[pc |-> "loaded",
                 crime_data |-> GeoDataFrame(add_geometry(read_csv(t))),
                 cities |-> read_file(shp),
                 joined_data |-> GeoDataFrame(<<>>)] :
                  t \in SeqsUpTo({Line(p, "ROBBERY") : p \in Places}, MaxPts),
                  shp \in ShapeFiles}
    /\ cls = ClsIdle
    /\ app = [program |-> "none", shares |-> FALSE]
    /\ fs = <<>>
    /\ glob = <<>>
    /\ last = <<>>
    /\ repeated = FALSE
    /\ thr = <<>>

\* if crime_data.crs is None: crime_data.crs = "EPSG:4326"
AttSetCrs ==
    /\ att.pc = "loaded"
    /\ att' = [att EXCEPT !.pc = "crs_set",
                          !.crime_data.crs = IF @ = "None" THEN "EPSG:4326" ELSE @]
    /\ UNCHANGED <<cls, app, fs, glob, last, repeated, thr>>

\* cities = cities.to_crs(crime_data.crs)
AttToCrs ==
    /\ att.pc = "crs_set"
    /\ att' = [att EXCEPT !.pc = "reprojected", !.cities = to_crs(@, att.crime_data.crs)]
    /\ UNCHANGED <<cls, app, fs, glob, last, repeated, thr>>

\* joined_data = gpd.sjoin(crime_data, cities, how='inner', predicate='within')
AttJoin ==
    /\ att.pc = "reprojected"
    /\ att' = [att EXCEPT !.pc = "joined", !.joined_data = sjoin(att.crime_data, att.cities)]
    /\ UNCHANGED <<cls, app, fs, glob, last, repeated, thr>>

NextJoin == AttSetCrs \/ AttToCrs \/ AttJoin

SpecJoin == InitJoin /\ [][NextJoin]_vars

(***************************************************************************)
(* Spec: the dashboards.                                                   *)
(*                                                                         *)
(* crime_map_app.py loads 2023crimedata.csv at start-up and its callbacks  *)
(* work on the module-level crime_data.  crime_map_appV2.py loads the same *)
(* file at start-up and its callbacks read <year>crimedata.csv again.      *)
(* A callback is one action: Dash runs it to its return or its exception.  *)
(***************************************************************************)
\* range(2019, 2024), the options of the year dropdown
Years == 2019..2023

\* the year of the file that start-up reads
StartYear == 2023

\* the years for which the data directory of the model may hold a file
FileYears == {2022, 2023}

\* the years the callbacks of the model are asked for: 2021 never has a file
RequestYears == {2021, 2022, 2023}

NoFile == <<>>

\* the lines the data files of the model are made of
AppLines == {Line(<<2, 2>>, " ROBBERY"), Line(<<0, 0>>, "Jaywalking"), Line(<<6, 8>>, "ARSON")}

\* the possible contents of the start-up file, and of the file of another year
DataFiles == SeqsUpTo(AppLines, MaxRows)
OtherDataFiles == SeqsUpTo(AppLines, MaxOtherRows)

\* the possible data directories: a start-up file, and any of the other files or none
Directories ==
    {[y \in Years |-> IF y \in FileYears THEN f[y] ELSE NoFile] :
        f \in [FileYears -> DataFiles \cup OtherDataFiles \cup {NoFile}]}

\* City_and_Unincorporated_Boundaries_(Legal).shp
CountyShapeFile ==
    [crs |-> "projected",
     regions |-> <<[CITY_NAME |-> "West", geometry |-> Box(1, 1, 5, 5)],
                   [CITY_NAME |-> "East", geometry |-> Box(5, 1, 9, 5)]>>]

\* os.path.exists(crime_file_path)
exists(dir, year) == dir[year] # NoFile

\* crime_df['category'] = crime_df['category'].str.strip()
strip_category(rows) ==
    SetColumn(rows, "category", [k \in 1..Len(rows) |-> str_strip(rows[k].category)])

\* .str raises AttributeError on a column that holds no string (all fields missing: float64)
str_accessor_ok(rows) == \E k \in 1..Len(rows) : rows[k].category.t = "str"

\* sorted(crime_df['category'].unique()) raises TypeError when a str is compared with NaN
sorted_ok(rows) == \A k \in 1..Len(rows) : rows[k].category.t = "str"

\* cities.unary_union.centroid: the centroid of the union of the region polygons
unary_union_centroid(gdf) ==
    [centroid_of |-> {gdf.rows[k].geometry : k \in 1..Len(gdf.rows)}, crs |-> gdf.crs]

\* joined_data['lat'] = joined_data.geometry.y; joined_data['lon'] = joined_data.geometry.x
add_lat_lon(gdf) ==
    [crs |-> gdf.crs,
     rows |-> [k \in 1..Len(gdf.rows) |->
                 WithColumn(WithColumn(gdf.rows[k], "lat", gdf.rows[k].geometry.y),
                            "lon", gdf.rows[k].geometry.x)]]

\* the module-level names after start-up
Startup(program, lines, shp) ==
    LET cities0 == read_file(shp)
        crime_df0 == add_geometry(strip_category(read_csv(lines)))
        crime_data0 == GeoDataFrame(crime_df0)
        crime_data1 == [crime_data0 EXCEPT !.crs = IF @ = "None" THEN "EPSG:4326" ELSE @]
        cities1 == to_crs(cities0, crime_data1.crs)
        joined0 == sjoin(crime_data1, cities1)
    IN  [crime_df |-> crime_df0,
         crime_data |-> crime_data1,
         cities |-> cities1,
         joined_data |-> IF program = "app" THEN add_lat_lon(to_crs(joined0, crime_data1.crs))
                         ELSE joined0,
         mean_centroid |-> unary_union_centroid(cities1)]

\* the options of the checklist
ChecklistOptions == {labels[i] : i \in 1..Len(labels)}

\* the options of the specific-crime dropdown: the distinct categories of crime_df
DropdownOptions(g) == {g.crime_df[k].category.v : k \in 1..Len(g.crime_df)}

NoCall == [request |-> [callback |-> "none", selected |-> {}, year |-> 0],
           outcome |-> [kind |-> "none"]]

\* create_base_map(cities, mean_centroid)
create_base_map(c, centroid) == [geojson |-> c.rows, center |-> centroid]

\* the columns px.scatter_mapbox draws from, and the row label
Plotted(row, color) ==
    [f \in {"index", "latitude", "longitude", "category", color} |-> row[f]]

\* the figure a scatter callback returns
scatter_figure(base, rows, color) ==
    [kind |-> "figure", base |-> base, color |-> color,
     filtered_data |-> [k \in 1..Len(rows) |-> Plotted(rows[k], color)]]

\* the figure update_data returns: the base map and the density of all incidents
density_figure(base, rows) ==
    [kind |-> "figure", base |-> base, color |-> "density",
     filtered_data |-> [k \in 1..Len(rows) |-> Plotted(rows[k], "category")]]

Raised(error) == [kind |-> "exception", error |-> error]

\* Series.isin(values) on one cell
isin_negated(cell, values) == ~(cell.t = "str" /\ cell.v \in values)

isin(cell, values) == cell.t = "str" /\ cell.v \in values

\* an empty selection is taken as no filter
filter_all_if_empty(rows, col, values) ==
    IF values = {} THEN rows ELSE SelectSeq(rows, LAMBDA r : isin(r[col], values))

\* df[df[col].isin(values)]
filter(rows, col, values) == SelectSeq(rows, LAMBDA r : isin(r[col], values))

\* df['aggregated_category'] = df.apply(assign_aggregated_category, axis=1)
add_aggregated_category(rows) ==
    SetColumn(rows, "aggregated_category",
              [k \in 1..Len(rows) |-> Str(assign_aggregated_category(rows[k].category))])

(* crime_map_app.py *)

\* the view is taken from joined_data, the incidents that lie within a region
app_update_aggregated_joined(g, shares, selected) ==
    LET rows == add_aggregated_category(g.crime_data.rows)
        filtered_data == filter(add_aggregated_category(g.joined_data.rows),
                                "aggregated_category", selected)
    IN  [glob |-> [g EXCEPT !.crime_data.rows = rows,
                            !.crime_df = IF shares THEN add_aggregated_category(@) ELSE @],
         outcome |-> scatter_figure(create_base_map(g.cities, g.mean_centroid),
                                    filtered_data, "aggregated_category")]

\* update_aggregated_crime_scatter(selected_categories): the module-level crime_data gets
\* the column; crime_df gets it too when GeoDataFrame(crime_df) shares the data of crime_df
app_update_aggregated(g, shares, selected) ==
    LET rows == add_aggregated_category(g.crime_data.rows)
        filtered_data == filter(rows, "aggregated_category", selected)
    IN  [glob |-> [g EXCEPT !.crime_data.rows = rows,
                            !.crime_df = IF shares THEN add_aggregated_category(@) ELSE @],
         outcome |-> scatter_figure(create_base_map(g.cities, g.mean_centroid),
                                    filtered_data, "aggregated_category")]

\* update_specific_crime_scatter(selected_crime_categories)
app_update_specific(g, selected) ==
    LET filtered_data == filter(g.crime_data.rows, "category", selected)
    IN  [glob |-> g,
         outcome |-> scatter_figure(create_base_map(g.cities, g.mean_centroid),
                                    filtered_data, "category")]

(* crime_map_appV2.py *)

\* if os.path.exists(crime_file_path): crime_df = pd.read_csv(crime_file_path)
load_crime_df(dir, year) ==
    IF exists(dir, year) THEN [bound |-> TRUE, rows |-> read_csv(dir[year])]
    ELSE [bound |-> FALSE, rows |-> <<>>]

\* the name crime_df is the module-level one: a load replaces it, a missing file leaves
\* the frame of the call before
bind_crime_df_global(g, loaded) ==
    IF loaded.bound THEN [local |-> loaded, module |-> loaded.rows]
    ELSE [local |-> [bound |-> TRUE, rows |-> g.crime_df], module |-> g.crime_df]

\* crime_df is assigned in the callback, so it is a local name there: unbound until the
\* assignment runs, and the module-level crime_df is left alone
bind_crime_df(g, loaded) == [local |-> loaded, module |-> g.crime_df]

\* update_data(selected_year)
v2_update_data(g, dir, year) ==
    IF exists(dir, year)
    THEN LET crime_df0 == read_csv(dir[year])
             crime_data0 == GeoDataFrame(add_geometry(strip_category(crime_df0)))
             crime_data1 == [crime_data0 EXCEPT !.crs = IF @ = "None" THEN "EPSG:4326" ELSE @]
             cities_ == to_crs(g.cities, crime_data1.crs)
             joined_data == add_lat_lon(to_crs(sjoin(crime_data1, cities_), crime_data1.crs))
             centroid == unary_union_centroid(cities_)
         IN  [glob |-> g,
              outcome |-> IF str_accessor_ok(crime_df0)
                          THEN density_figure(create_base_map(cities_, centroid), crime_data1.rows)
                          ELSE Raised("AttributeError")]
    ELSE [glob |-> g, outcome |-> [kind |-> "empty"]]

\* update_aggregated_crime_scatter(selected_categories, selected_year)
v2_update_aggregated(g, dir, selected, year) ==
    LET b == bind_crime_df(g, load_crime_df(dir, year))
        g1 == [g EXCEPT !.crime_df = b.module]
    IN  IF b.local.bound
        THEN LET rows == add_aggregated_category(b.local.rows)
                 filtered_data == filter(rows, "aggregated_category", selected)
             IN  [glob |-> g1,
                  outcome |-> scatter_figure(create_base_map(g.cities, g.mean_centroid),
                                             filtered_data, "aggregated_category")]
        ELSE [glob |-> g1, outcome |-> Raised("UnboundLocalError")]

\* update_specific_crime_scatter(selected_crime_categories, selected_year)
v2_update_specific(g, dir, selected, year) ==
    IF exists(dir, year)
    THEN LET filtered_data == filter(read_csv(dir[year]), "category", selected)
         IN  [glob |-> g,
              outcome |-> scatter_figure(create_base_map(g.cities, g.mean_centroid),
                                         filtered_data, "category")]
    ELSE [glob |-> g, outcome |-> Raised("UnboundLocalError")]

\* what a callback of the running program does with the module-level names g
Run(prog, g, dir, req) ==
    CASE prog.program = "app" /\ req.callback = "update_aggregated_crime_scatter" ->
            app_update_aggregated(g, prog.shares, req.selected)
      [] prog.program = "app" /\ req.callback = "update_specific_crime_scatter" ->
            app_update_specific(g, req.selected)
      [] prog.program = "appV2" /\ req.callback = "update_data" ->
            v2_update_data(g, dir, req.year)
      [] prog.program = "appV2" /\ req.callback = "update_aggregated_crime_scatter" ->
            v2_update_aggregated(g, dir, req.selected, req.year)
      [] prog.program = "appV2" /\ req.callback = "update_specific_crime_scatter" ->
            v2_update_specific(g, dir, req.selected, req.year)

\* the state after start-up: the start-up file exists and start-up went through
Init ==
    /\ cls = ClsIdle
    /\ att = AttIdle
    /\ app \in {[program |-> "app", shares |-> b] : b \in BOOLEAN}
               \cup {[program |-> "appV2", shares |-> FALSE]}
    /\ fs \in Directories
    /\ exists(fs, StartYear)
    /\ \A y \in Years \ {StartYear} : fs[y] \in OtherDataFiles \cup {NoFile}
    /\ app.program = "app" => \A y \in Years \ {StartYear} : fs[y] = NoFile
    /\ str_accessor_ok(read_csv(fs[StartYear]))
    /\ sorted_ok(strip_category(read_csv(fs[StartYear])))
    /\ glob = Startup(app.program, fs[StartYear], CountyShapeFile)
    /\ last = NoCall
    /\ repeated = FALSE
    /\ thr = <<>>

Call(req) ==
    /\ \E done \in {Run(app, glob, fs, req)} :
         /\ glob' = done.glob
         /\ last' = [request |-> req, outcome |-> done.outcome]
    /\ repeated' = (last.request = req)
    /\ UNCHANGED <<cls, att, app, fs, thr>>

AppUpdateAggregated ==
    /\ app.program = "app"
    /\ \E selected \in SUBSET ChecklistOptions :
         Call([callback |-> "update_aggregated_crime_scatter", selected |-> selected,
               year |-> StartYear])

AppUpdateSpecific ==
    /\ app.program = "app"
    /\ \E selected \in SUBSET DropdownOptions(glob) :
         Call([callback |-> "update_specific_crime_scatter", selected |-> selected,
               year |-> StartYear])

V2UpdateData ==
    /\ app.program = "appV2"
    /\ \E year \in RequestYears :
         Call([callback |-> "update_data", selected |-> {}, year |-> year])

V2UpdateAggregated ==
    /\ app.program = "appV2"
    /\ \E selected \in SUBSET ChecklistOptions, year \in RequestYears :
         Call([callback |-> "update_aggregated_crime_scatter", selected |-> selected,
               year |-> year])

V2UpdateSpecific ==
    /\ app.program = "appV2"
    /\ \E selected \in SUBSET DropdownOptions(glob), year \in RequestYears :
         Call([callback |-> "update_specific_crime_scatter", selected |-> selected,
               year |-> year])

Next ==
    \/ AppUpdateAggregated
    \/ AppUpdateSpecific
    \/ V2UpdateData
    \/ V2UpdateAggregated
    \/ V2UpdateSpecific

Spec == Init /\ [][Next]_vars

(***************************************************************************)
(* SpecThreads: crime_map_app.py with requests served at the same time.    *)
(*                                                                         *)
(* The development server of Dash serves each request in a thread of its   *)
(* own, so the callbacks interleave; a step here is one read or one write  *)
(* of the module-level crime_data.                                         *)
(*   update_aggregated_crime_scatter                                       *)
(*     line 168  series = crime_data.apply(...)           -> "applied"     *)
(*               crime_data['aggregated_category'] = series  -> "assigned" *)
(*     line 170  mask = crime_data['aggregated_category'].isin(selected)   *)
(*                                                        -> "masked"      *)
(*               filtered_data = crime_data[mask], figure -> "done"        *)
(*   update_specific_crime_scatter                                         *)
(*     line 217  mask = crime_data['category'].isin(selected) -> "masked"  *)
(*               filtered_data = crime_data[mask], figure -> "done"        *)
(***************************************************************************)
Threads == 1..MaxThreads

ThrIdle == [pc |-> "idle"]

\* the checklist selections of the requests
ThreadChecklists == {{"Person-Related Crimes"}, {"Property Crimes"}, ChecklistOptions}

\* the dropdown selections of the requests: one category
ThreadDropdowns(g) == {{c} : c \in DropdownOptions(g)}

\* the value is the label of every row, whatever the selection, except that a row whose
\* label is not selected gets "Other"
aggregated_column_selected(rows, selected_categories) ==
    [k \in 1..Len(rows) |->
        IF assign_aggregated_category(rows[k].category) \in selected_categories
        THEN Str(assign_aggregated_category(rows[k].category)) ELSE Str("Other")]

\* crime_data.apply(assign_aggregated_category, axis=1) in the callback: the label of every
\* row; selected_categories is in scope and plays no part
aggregated_column(rows, selected_categories) ==
    [k \in 1..Len(rows) |-> Str(assign_aggregated_category(rows[k].category))]

\* crime_data[mask]
select_rows(rows, mask) ==
    LET keep == {k \in 1..Len(rows) : mask[k]}
        RECURSIVE pick(_)
        pick(k) == IF k > Len(rows) THEN <<>>
                   ELSE (IF k \in keep THEN <<rows[k]>> ELSE <<>>) \o pick(k + 1)
    IN  pick(1)

InitThreads ==
    /\ cls = ClsIdle
    /\ att = AttIdle
    /\ app \in {[program |-> "app", shares |-> b] : b \in BOOLEAN}
    /\ fs \in Directories
    /\ exists(fs, StartYear)
    /\ \A y \in Years \ {StartYear} : fs[y] = NoFile
    /\ str_accessor_ok(read_csv(fs[StartYear]))
    /\ sorted_ok(strip_category(read_csv(fs[StartYear])))
    /\ glob = Startup(app.program, fs[StartYear], CountyShapeFile)
    /\ last = NoCall
    /\ repeated = FALSE
    /\ thr = [t \in Threads |-> ThrIdle]

\* a request for the aggregated view arrives; line 168, right-hand side
ThrApply(t) ==
    /\ thr[t].pc = "idle"
    /\ \E selected \in ThreadChecklists :
         thr' = [thr EXCEPT ![t] =
                   [pc |-> "applied",
                    request |-> [callback |-> "update_aggregated_crime_scatter",
                                 selected |-> selected, year |-> StartYear],
                    series |-> aggregated_column(glob.crime_data.rows, selected)]]
    /\ UNCHANGED <<cls, att, app, fs, glob, last, repeated>>

\* line 168, the assignment to the column of the module-level crime_data
ThrAssign(t) ==
    /\ thr[t].pc = "applied"
    /\ glob' = [glob EXCEPT
                  !.crime_data.rows = SetColumn(@, "aggregated_category", thr[t].series),
                  !.crime_df = IF app.shares
                               THEN SetColumn(@, "aggregated_category", thr[t].series) ELSE @]
    /\ thr' = [thr EXCEPT ![t] = [pc |-> "assigned", request |-> thr[t].request]]
    /\ UNCHANGED <<cls, att, app, fs, last, repeated>>

\* line 170, the mask
ThrMaskAggregated(t) ==
    /\ thr[t].pc = "assigned"
    /\ thr' = [thr EXCEPT ![t] =
                 [pc |-> "masked", request |-> thr[t].request,
                  mask |-> [k \in 1..Len(glob.crime_data.rows) |->
                              isin(glob.crime_data.rows[k].aggregated_category,
                                   thr[t].request.selected)]]]
    /\ UNCHANGED <<cls, att, app, fs, glob, last, repeated>>

\* a request for the specific view arrives; line 217, the mask
ThrMaskSpecific(t) ==
    /\ thr[t].pc = "idle"
    /\ \E selected \in ThreadDropdowns(glob) :
         thr' = [thr EXCEPT ![t] =
                   [pc |-> "masked",
                    request |-> [callback |-> "update_specific_crime_scatter",
                                 selected |-> selected, year |-> StartYear],
                    mask |-> [k \in 1..Len(glob.crime_data.rows) |->
                                isin(glob.crime_data.rows[k].category, selected)]]]
    /\ UNCHANGED <<cls, att, app, fs, glob, last, repeated>>

\* lines 170 and 217, the selection of the rows; then the figure is built and returned
ThrSelect(t) ==
    /\ thr[t].pc = "masked"
    /\ thr' = [thr EXCEPT ![t] =
                 [pc |-> "done", request |-> thr[t].request,
                  outcome |-> scatter_figure(
                      create_base_map(glob.cities, glob.mean_centroid),
                      select_rows(glob.crime_data.rows, thr[t].mask),
                      IF thr[t].request.callback = "update_aggregated_crime_scatter"
                      THEN "aggregated_category" ELSE "category")]]
    /\ UNCHANGED <<cls, att, app, fs, glob, last, repeated>>

\* the response is sent and the thread is free again
ThrReturn(t) ==
    /\ thr[t].pc = "done"
    /\ thr' = [thr EXCEPT ![t] = ThrIdle]
    /\ UNCHANGED <<cls, att, app, fs, glob, last, repeated>>

NextThreads ==
    \E t \in Threads :
        \/ ThrApply(t)
        \/ ThrAssign(t)
        \/ ThrMaskAggregated(t)
        \/ ThrMaskSpecific(t)
        \/ ThrSelect(t)
        \/ ThrReturn(t)

SpecThreads == InitThreads /\ [][NextThreads]_vars

(***************************************************************************)
(* Properties of the classifier                                            *)
(***************************************************************************)
Labels5 == {labels[i] : i \in 1..Len(labels)} \cup {"Other"}

Classified == cls.pc \in {"classified", "reclassified"}

\* C1: classification is total and deterministic: whatever the category cell is (a table
\* entry, any other text, the empty string, a missing value), the classifier returns one
\* of the five labels, the empty string and the missing value give "Other", and a second
\* application to the same cell returns the same label.
C1_ClassificationTotal ==
    /\ Classified =>
          /\ cls.label \in Labels5
          /\ (cls.cell = NaN \/ cls.cell = Str("")) => cls.label = "Other"
    /\ cls.pc = "reclassified" => cls.relabel = cls.label

C1_Witness ==
    /\ cls.pc = "reclassified"
    /\ cls.cell = NaN
    /\ cls.label = "Other"
    /\ cls.relabel = "Other"

\* the buckets whose member list holds the cell's text
Hits(cell) == {i \in 1..Len(bins) : cell.t = "str" /\ cell.v \in {bins[i][j] : j \in 1..Len(bins[i])}}

First(S) == CHOOSE i \in S : \A k \in S : i <= k

\* C5: the classifier returns the label of the first bucket, in the order Person-Related,
\* Property, Drug and Alcohol-Related, Miscellaneous, whose member list holds the category,
\* and it returns "Other" exactly when no member list holds it.
C5_FirstMatchElseOther ==
    Classified =>
        /\ Hits(cls.cell) # {} => cls.label = labels[First(Hits(cls.cell))]
        /\ cls.label = "Other" <=> Hits(cls.cell) = {}

C5_Witness ==
    /\ cls.pc = "classified"
    /\ cls.cell = Str("Jaywalking")
    /\ cls.label = "Other"

\* the upper-case form of the texts the model draws from
Upper(c) ==
    CASE c = "Robbery" -> "ROBBERY"
      [] c = "robbery" -> "ROBBERY"
      [] c = "Arson" -> "ARSON"
      [] c = "Jaywalking" -> "JAYWALKING"
      [] OTHER -> c

BucketOf(entry) == labels[CHOOSE i \in 1..Len(bins) : \E j \in 1..Len(bins[i]) : bins[i][j] = entry]

\* the text is c with whitespace around it
PaddedFrom(text, c) == \E a \in Pads, b \in Pads : text = a \o c \o b

\* C4 as claimed: in crime_map_app.py a category that differs from a table entry only by
\* surrounding whitespace or by letter case gets the bucket of that entry
\* (" Robbery " is a Person-Related Crime).
C4_WhitespaceAndCaseInvariant ==
    (cls.path = "app" /\ Classified) =>
        \A v \in Cores :
            (PaddedFrom(cls.text, v) /\ Upper(v) \in TableEntries) => cls.label = BucketOf(Upper(v))

\* C4 as amended: in crime_map_app.py a category that differs from a table entry only by
\* surrounding whitespace gets the bucket of that entry; one that differs from it in letter
\* case is compared as it is written and gets "Other".
C4_WhitespaceInvariantCaseSensitive ==
    (cls.path = "app" /\ Classified) =>
        \A v \in Cores :
            (PaddedFrom(cls.text, v) /\ Upper(v) \in TableEntries) =>
                cls.label = (IF v = Upper(v) THEN BucketOf(v) ELSE "Other")

C4_Witness ==
    /\ cls.path = "app"
    /\ cls.pc = "classified"
    /\ cls.text = " ROBBERY "
    /\ cls.label = "Person-Related Crimes"

(***************************************************************************)
(* Properties of the attribution                                           *)
(***************************************************************************)
\* the incident lies in the interior of the named region (both in EPSG:4326)
Inside(l, name) ==
    LET g == (CHOOSE r \in RegionUniverse : r.CITY_NAME = name).geometry
    IN  /\ ~isnan(l.longitude) /\ ~isnan(l.latitude)
        /\ g.xmin < l.longitude /\ l.longitude < g.xmax
        /\ g.ymin < l.latitude /\ l.latitude < g.ymax

\* the names of the regions of the boundary file that hold the incident
Holders(l) ==
    {att.cities.rows[j].CITY_NAME : j \in {i \in 1..Len(att.cities.rows) :
                                             Inside(l, att.cities.rows[i].CITY_NAME)}}

\* the rows of the attribution output that belong to the incident
EntriesOf(l) == SelectSeq(att.joined_data.rows, LAMBDA e : e.index = l.index)

\* C6 as claimed: the attribution output has one entry per incident; an incident within
\* exactly one region carries that region's name, and an incident outside all regions
\* (such as longitude 0, latitude 0) is in the output with a missing region.
C6_OneEntryPerIncident ==
    att.pc = "joined" =>
        \A k \in 1..Len(att.crime_data.rows) :
            LET l == att.crime_data.rows[k] IN
            /\ Len(EntriesOf(l)) = 1
            /\ Cardinality(Holders(l)) = 1 => EntriesOf(l)[1].CITY_NAME \in Holders(l)
            /\ Holders(l) = {} => EntriesOf(l)[1].CITY_NAME = NaN

\* C6 as amended: the attribution output holds only the incidents that lie within a
\* region; an incident within exactly one region has exactly one entry, with that region's
\* name, and an incident outside all regions (such as longitude 0, latitude 0) has no entry.
C6_InnerJoinDropsOutside ==
    att.pc = "joined" =>
        \A k \in 1..Len(att.crime_data.rows) :
            LET l == att.crime_data.rows[k] IN
            /\ Cardinality(Holders(l)) = 1 =>
                  /\ Len(EntriesOf(l)) = 1
                  /\ EntriesOf(l)[1].CITY_NAME \in Holders(l)
            /\ Holders(l) = {} => EntriesOf(l) = <<>>

C6_Witness ==
    /\ att.pc = "joined"
    /\ Len(att.crime_data.rows) = 2
    /\ att.crime_data.rows[1].longitude = 0 /\ att.crime_data.rows[1].latitude = 0
    /\ Cardinality(Holders(att.crime_data.rows[2])) = 1
    /\ Len(att.joined_data.rows) = 1
    /\ att.joined_data.rows[1].index = 1

\* C9: attribution is order-independent: joining the incidents one record at a time
\* against the regions gives, for every record, the rows that the join of the whole
\* collection gives for it.
C9_RecordWiseJoin ==
    att.pc = "joined" =>
        \A k \in 1..Len(att.crime_data.rows) :
            LET l == att.crime_data.rows[k]
                one == [crs |-> att.crime_data.crs, rows |-> <<l>>]
            IN  sjoin(one, att.cities).rows = EntriesOf(l)

C9_Witness ==
    /\ att.pc = "joined"
    /\ Len(att.crime_data.rows) = 2
    /\ Len(att.cities.rows) = 2
    /\ EntriesOf(att.crime_data.rows[1]) # <<>>
    /\ EntriesOf(att.crime_data.rows[2]) # <<>>
    /\ EntriesOf(att.crime_data.rows[1]) # EntriesOf(att.crime_data.rows[2])

(***************************************************************************)
(* Properties of the dashboards                                            *)
(***************************************************************************)
Called == last # NoCall

Aggregated == Called /\ last.request.callback = "update_aggregated_crime_scatter"

\* the module-level names right after start-up
AfterStartup == Startup(app.program, fs[StartYear], CountyShapeFile)

\* the incident collection the last call worked on
Collection ==
    IF app.program = "app" THEN glob.crime_data.rows ELSE read_csv(fs[last.request.year])

Indexes(rows) == [k \in 1..Len(rows) |-> rows[k].index]

\* C2 (the claim; the code breaks it): in crime_map_appV2.py a year-driven callback that
\* is asked for a year whose file is absent returns an empty result and raises nothing.
C2_MissingYearGivesEmptyResult ==
    (app.program = "appV2" /\ Called /\ ~exists(fs, last.request.year)) =>
        \/ last.outcome.kind = "empty"
        \/ last.outcome.kind = "figure" /\ last.outcome.filtered_data = <<>>

\* C3 as claimed: with all four bucket labels selected the aggregated view returns the
\* whole incident collection.
C3_AllBucketsIsNoFilter ==
    (Aggregated /\ last.request.selected = ChecklistOptions /\ last.outcome.kind = "figure") =>
        Indexes(last.outcome.filtered_data) = Indexes(Collection)

\* C3 as amended: with all four bucket labels selected the aggregated view returns the
\* incidents whose category is in one of the four member lists, in their order; the
\* incidents that are classified "Other" are left out.
C3_AllBucketsDropsOther ==
    (Aggregated /\ last.request.selected = ChecklistOptions /\ last.outcome.kind = "figure") =>
        Indexes(last.outcome.filtered_data)
            = Indexes(SelectSeq(Collection, LAMBDA r : Hits(r.category) # {}))

C3_Witness ==
    /\ Aggregated
    /\ last.request.selected = ChecklistOptions
    /\ last.outcome.kind = "figure"
    /\ Len(Collection) = 2
    /\ Indexes(last.outcome.filtered_data) = <<1>>

\* C7: in crime_map_appV2.py every invocation of a year-driven callback returns what the
\* same invocation returns right after start-up, whatever calls came before it: repeated
\* requests give identical output, no call leaves state that changes a later result.
C7_SameRequestSameOutput ==
    (app.program = "appV2" /\ Called) =>
        last.outcome = Run(app, AfterStartup, fs, last.request).outcome

C7_Witness ==
    /\ app.program = "appV2"
    /\ repeated
    /\ last.request.callback = "update_aggregated_crime_scatter"
    /\ last.outcome.kind = "figure"
    /\ last.outcome.filtered_data # <<>>

\* C8: an empty selection (no bucket in the aggregated view, no category in the specific
\* view) gives a figure with an empty filtered incident set, never an exception; in
\* crime_map_app.py always, in crime_map_appV2.py for a year whose file exists.
C8_EmptySelectionEmptyFigure ==
    (/\ Called
     /\ last.request.callback # "update_data"
     /\ last.request.selected = {}
     /\ exists(fs, last.request.year)) =>
        /\ last.outcome.kind = "figure"
        /\ last.outcome.filtered_data = <<>>

C8_Witness ==
    /\ app.program = "app"
    /\ last.request.callback = "update_specific_crime_scatter"
    /\ last.request.selected = {}
    /\ last.outcome.kind = "figure"
    /\ last.outcome.filtered_data = <<>>

\* C10 (the claim; the code breaks it): no callback modifies the module-level incident
\* collection (crime_data, crime_df) or region collection (cities): they have the columns
\* and values they had right after start-up.
C10_ModuleDataUnchanged ==
    /\ glob.crime_data = AfterStartup.crime_data
    /\ glob.crime_df = AfterStartup.crime_df
    /\ glob.cities = AfterStartup.cities

(***************************************************************************)
(* Normalisation before the lookup                                         *)
(***************************************************************************)
\* C11 (the claim; the code breaks it): in every path that classifies incidents the key
\* that is compared with the member lists is the whitespace-stripped category, never the
\* text as read from the file: at start-up and in each reload of a year inside a callback.
C11_LookupKeyIsStripped ==
    Classified => cls.cell = str_strip(read_csv_field(cls.text))

(***************************************************************************)
(* Frames at the join                                                      *)
(***************************************************************************)
\* the rectangle of a region of the boundary file in (longitude, latitude)
GeographicBox(name) == (CHOOSE r \in RegionUniverse : r.CITY_NAME = name).geometry

\* C12: the join runs only after the incidents have their frame (EPSG:4326, as none is
\* given) and the regions have been converted to that frame: from the conversion on, the
\* two frames are equal and every region's rectangle is in the incidents' coordinates;
\* before it, no join has produced anything.
C12_ReprojectedBeforeJoin ==
    /\ att.pc \in {"reprojected", "joined"} =>
          /\ att.crime_data.crs = "EPSG:4326"
          /\ att.cities.crs = att.crime_data.crs
          /\ \A k \in 1..Len(att.cities.rows) :
                att.cities.rows[k].geometry = GeographicBox(att.cities.rows[k].CITY_NAME)
    /\ att.pc \in {"loaded", "crs_set"} => att.joined_data.rows = <<>>

C12_Witness ==
    /\ att.pc = "joined"
    /\ att.joined_data.rows # <<>>
    /\ att.cities.crs = "EPSG:4326"

(***************************************************************************)
(* Overlapping regions                                                     *)
(***************************************************************************)
\* the names of the regions that hold the incident, in the order of the boundary file
HolderSeq(l) ==
    LET hit == SelectSeq(att.cities.rows, LAMBDA r : Inside(l, r.CITY_NAME))
    IN  [j \in 1..Len(hit) |-> hit[j].CITY_NAME]

\* the names of the regions in the output rows of the incident, in the order of the output
RegionsOf(l) == [j \in 1..Len(EntriesOf(l)) |-> EntriesOf(l)[j].CITY_NAME]

\* C13 as claimed: attribution gives an incident at most one region even when regions
\* overlap: an incident within two or more regions is in the output exactly once, with
\* the first region of the boundary file that holds it.
C13_AtMostOneRegion ==
    att.pc = "joined" =>
        \A k \in 1..Len(att.crime_data.rows) :
            LET l == att.crime_data.rows[k] IN
            /\ Len(EntriesOf(l)) <= 1
            /\ Len(HolderSeq(l)) >= 2 => RegionsOf(l) = <<HolderSeq(l)[1]>>

\* C13 as amended: attribution gives an incident one output row for every region that
\* holds it: an incident within two overlapping regions is in the output twice, once with
\* each region, in the order of the regions in the boundary file.
C13_OneRowPerHoldingRegion ==
    att.pc = "joined" =>
        \A k \in 1..Len(att.crime_data.rows) :
            RegionsOf(att.crime_data.rows[k]) = HolderSeq(att.crime_data.rows[k])

C13_Witness ==
    /\ att.pc = "joined"
    /\ \E k \in 1..Len(att.crime_data.rows) :
          /\ Len(HolderSeq(att.crime_data.rows[k])) = 2
          /\ Len(EntriesOf(att.crime_data.rows[k])) = 2

(***************************************************************************)
(* Unusable coordinates                                                    *)
(***************************************************************************)
\* finite coordinates within the range of longitudes and latitudes
ValidCoordinates(l) ==
    /\ ~isnan(l.longitude) /\ ~isnan(l.latitude)
    /\ -180 <= l.longitude /\ l.longitude <= 180
    /\ -90 <= l.latitude /\ l.latitude <= 90

\* C14: an incident with a non-finite or out-of-range coordinate is skipped, not a
\* failure: it has no row in the attribution output, and the output is the one that the
\* join gives for the other incidents alone.
C14_InvalidCoordinatesSkipped ==
    att.pc = "joined" =>
        /\ \A k \in 1..Len(att.crime_data.rows) :
              ~ValidCoordinates(att.crime_data.rows[k]) => EntriesOf(att.crime_data.rows[k]) = <<>>
        /\ att.joined_data.rows =
              sjoin([crs |-> att.crime_data.crs,
                     rows |-> SelectSeq(att.crime_data.rows, ValidCoordinates)],
                    att.cities).rows

C14_Witness ==
    /\ att.pc = "joined"
    /\ \E j, k \in 1..Len(att.crime_data.rows) :
          /\ isnan(att.crime_data.rows[j].longitude)
          /\ att.crime_data.rows[k].latitude > 90
    /\ att.cities.rows # <<>>

(***************************************************************************)
(* The table as a partition                                                *)
(***************************************************************************)
\* C15: the table is a partition: no category is a member of two lists or twice a member
\* of one list, so a classified category has the label of every list that holds it and the
\* order in which the lists are scanned does not matter.
C15_TableIsPartition ==
    /\ \A i, j \in 1..Len(bins) :
          \A k \in 1..Len(bins[i]) : \A m \in 1..Len(bins[j]) :
              bins[i][k] = bins[j][m] => (i = j /\ k = m)
    /\ Classified => \A i \in Hits(cls.cell) : cls.label = labels[i]

C15_Witness ==
    /\ Classified
    /\ cls.cell = Str("ARSON")
    /\ Hits(cls.cell) = {2}
    /\ cls.label = "Property Crimes"

(***************************************************************************)
(* Requests served at the same time                                        *)
(***************************************************************************)
\* C16: in crime_map_app.py, however the statements of requests for the aggregated and
\* the specific view interleave, the figure of every finished request is the one that the
\* same request gives when it runs alone on the data of start-up.
C16_InterleavingSameAsAlone ==
    \A t \in DOMAIN thr :
        thr[t].pc = "done" =>
            thr[t].outcome = Run(app, AfterStartup, fs, thr[t].request).outcome

\* a request for Person-Related Crimes finishes after the column has been written, while
\* another request for Property Crimes has passed its own write and is before its mask
C16_Witness ==
    /\ DOMAIN thr # {}
    /\ \E t, u \in DOMAIN thr :
          /\ thr[t].pc = "done"
          /\ thr[t].request.callback = "update_aggregated_crime_scatter"
          /\ thr[t].request.selected = {"Person-Related Crimes"}
          /\ thr[t].outcome.filtered_data # <<>>
          /\ thr[u].pc = "assigned"
          /\ thr[u].request.selected = {"Property Crimes"}

(***************************************************************************)
(* The views and the attribution                                           *)
(***************************************************************************)
Specific == Called /\ last.request.callback = "update_specific_crime_scatter"

\* the label of the first list that holds the cell's text, "Other" when none does
LabelOf(cell) == IF Hits(cell) = {} THEN "Other" ELSE labels[First(Hits(cell))]

\* the row's key in the view of the last call is selected: its bucket in the aggregated
\* view, its category in the specific view, both taken from the viewed collection
KeySelected(r) ==
    IF Aggregated THEN LabelOf(r.category) \in last.request.selected
    ELSE r.category.t = "str" /\ r.category.v \in last.request.selected

\* the row lies within no region of the boundary file
OutsideAllRegions(r) ==
    \A k \in 1..Len(glob.cities.rows) :
        ~within(Point(r.longitude, r.latitude), glob.cities.rows[k].geometry)

\* C17: the incidents of the aggregated and of the specific view are the incidents of the
\* viewed collection whose bucket or category is selected, whether or not the attribution
\* kept them: an incident within no region is in the view whenever its key is selected.
C17_ViewIgnoresAttribution ==
    ((Aggregated \/ Specific) /\ last.outcome.kind = "figure") =>
        Indexes(last.outcome.filtered_data) = Indexes(SelectSeq(Collection, KeySelected))

\* the aggregated view of Property Crimes shows the ARSON incident at (6, 8), which lies
\* within no region and is not in joined_data
C17_Witness ==
    /\ app.program = "app"
    /\ Aggregated
    /\ last.outcome.kind = "figure"
    /\ \E k \in 1..Len(last.outcome.filtered_data) :
          /\ OutsideAllRegions(last.outcome.filtered_data[k])
          /\ \A j \in 1..Len(glob.joined_data.rows) :
                glob.joined_data.rows[j].index # last.outcome.filtered_data[k].index
    /\ glob.joined_data.rows # <<>>

(***************************************************************************)
(* The specific view and the dropdown                                      *)
(***************************************************************************)
\* the whitespace-stripped category of the row is selected in the last call
StrippedSelected(r) == isin(str_strip(r.category), last.request.selected)

\* C18 (the claim; the code breaks it): in both programs, for every selection taken from
\* the options of the specific-crime dropdown, the specific view returns exactly the
\* incidents of the viewed collection whose whitespace-stripped category is selected, so an
\* incident whose category is written with surrounding whitespace is returned when its
\* stripped form is selected.
C18_SpecificViewByStrippedCategory ==
    (Specific /\ last.outcome.kind = "figure") =>
        Indexes(last.outcome.filtered_data) = Indexes(SelectSeq(Collection, StrippedSelected))

====
